---- MODULE Spec2Model ----
(***************************************************************************)
(* Polysat core saturation (src/math/polysat/saturation.cpp).              *)
(*                                                                         *)
(* Two state machines over one set of variables:                           *)
(*   SpecBisect / FairBisect : push_omega_bisect, one loop iteration per   *)
(*                             step, for every admissible input;           *)
(*   Spec                    : perform and the four inference rules over a *)
(*                             conflict core, one rule attempt per step.   *)
(***************************************************************************)
EXTENDS Integers, Sequences, FiniteSets, TLC

\* ------------------------------------------------------------------ bounds
\* bit-widths explored (the ring bound is 2^w)
Widths == {2, 3, 4}
\* the pvars of the solver
Vars == {0, 1}
\* values the current model assigns in the initial states of Spec (reduced mod 2^w)
ValPool == {0, 1, 2, 3, 8, 15}
\* the viable maximum of an assigned variable is its value plus at most
\* this much, or the largest ring value
MaxSlack == 2

VARIABLES
    w,        \* bit-width of the ring (pddm.power_of_2())
    debug,    \* TRUE: SASSERT is compiled in and aborts; FALSE: release build
    \* ---- push_omega_bisect
    bin,      \* its inputs: x_val, x_max, y_val, y_max
    bs,       \* its locals: x_lo, x_hi, y_lo, y_hi
    bpc,      \* its program counter
    \* ---- perform
    val,      \* the current model: pvar -> value, or NoVal when unassigned
    core,     \* the conflict core, in iteration order
    pv,       \* the pvar perform was called with
    pc,       \* "idle", "loop" (inside perform), "returned", "hang", "abort"
    idx,      \* position of c1 in perform's loop over the core
    rule,     \* the rule tried next on c1: 1 ugt_x, 2 ugt_y, 3 ugt_z, 4 y_l_ax_and_x_l_z
    j,        \* position of dd in a paired rule's loop over the core (0: not in it)
    core0,    \* the core when perform was called
    oplog,    \* keep/insert/set operations perform has done on the core
    att,      \* the rule attempt made by the last step (NoAtt when it made none)
    tried,    \* the companions the paired rule running on c1 has tried so far
    ret       \* what perform returned ("none" until it returns)

bvars == <<bin, bs, bpc>>
svars == <<val, core, pv, pc, idx, rule, j, core0, oplog, att, tried, ret>>
vars == <<w, debug, bin, bs, bpc, val, core, pv, pc, idx, rule, j, core0, oplog, att, tried, ret>>

RECURSIVE Pow2(_)
\* rational::power_of_two
Pow2(n) == IF n = 0 THEN 1 ELSE 2 * Pow2(n - 1)

\* ------------------------------------------------------- push_omega_bisect
\* loop condition of the joint bisection
JointCond(s) == s.x_lo < s.x_hi \/ s.y_lo < s.y_hi

\* one iteration of the joint bisection loop
JointStep(bound, s) ==
    LET x_mid == (s.x_hi + s.x_lo) \div 2
        y_mid == (s.y_hi + s.y_lo) \div 2
    IN  IF x_mid * y_mid >= bound
        THEN [s EXCEPT !.x_hi = x_mid - 1, !.y_hi = y_mid - 1]
        ELSE [s EXCEPT !.x_lo = x_mid, !.y_lo = y_mid]

\* the three SASSERTs after the joint loop
MidAsserts(bound, s) ==
    /\ s.x_hi = s.x_lo /\ s.y_hi = s.y_lo
    /\ s.x_lo * s.y_lo < bound
    /\ (s.x_lo + 1) * (s.y_lo + 1) >= bound

\* one iteration of the loop extending x_lo with y_lo fixed
ExtXStep(bound, s) ==
    LET x_mid == (s.x_hi + s.x_lo) \div 2
    IN  IF x_mid * s.y_lo >= bound
        THEN [s EXCEPT !.x_hi = x_mid - 1]
        ELSE [s EXCEPT !.x_lo = x_mid]

\* one iteration of the loop extending y_lo with x_lo fixed
ExtYStep(bound, s) ==
    LET y_mid == (s.y_hi + s.y_lo) \div 2
    IN  IF y_mid * s.x_lo >= bound
        THEN [s EXCEPT !.y_hi = y_mid - 1]
        ELSE [s EXCEPT !.y_lo = y_mid]

\* the three SASSERTs before the literals are emitted
FinalAsserts(bound, s) ==
    /\ s.x_lo * s.y_lo < bound
    /\ (s.x_lo + 1) * s.y_lo >= bound
    /\ s.x_lo * (s.y_lo + 1) >= bound

\* locals after "rational x_lo = x_val, x_hi = x_max, y_lo = y_val, y_hi = y_max"
BisectStart(in) ==
    [x_lo |-> in.x_val, x_hi |-> in.x_max, y_lo |-> in.y_val, y_hi |-> in.y_max]

\* where control goes after the joint loop and its SASSERTs
MidBranch(bound, in, s) ==
    IF (s.x_lo + 1) * s.y_lo < bound
    THEN [pc |-> "ext_x", s |-> [s EXCEPT !.x_hi = in.x_max]]
    ELSE IF s.x_lo * (s.y_lo + 1) < bound
    THEN [pc |-> "ext_y", s |-> [s EXCEPT !.y_hi = in.y_max]]
    ELSE [pc |-> "post", s |-> s]

\* admissible inputs: x_val * y_val < bound (SASSERT at entry) and the
\* caller's test x_max * y_max >= bound; the maxima are viable maxima or bound-1
BisectInputs(bound) ==
    {in \in [x_val : 0 .. bound - 1, x_max : 0 .. bound - 1,
             y_val : 0 .. bound - 1, y_max : 0 .. bound - 1] :
        /\ in.x_val <= in.x_max /\ in.y_val <= in.y_max
        /\ in.x_val * in.y_val < bound
        /\ in.x_max * in.y_max >= bound}

\* push_omega_bisect run to completion: "ret" with the pair it emits, "hang" when
\* a loop iteration leaves its locals unchanged with the loop condition still
\* true (the loop then repeats that iteration forever), "abort" when a SASSERT
\* fails in a debug build
RECURSIVE JointLoop(_, _)
JointLoop(bound, s) ==
    IF ~JointCond(s) THEN [hang |-> FALSE, s |-> s]
    ELSE LET n == JointStep(bound, s)
         IN  IF n = s THEN [hang |-> TRUE, s |-> s] ELSE JointLoop(bound, n)

RECURSIVE ExtXLoop(_, _)
ExtXLoop(bound, s) ==
    IF ~(s.x_lo < s.x_hi) THEN [hang |-> FALSE, s |-> s]
    ELSE LET n == ExtXStep(bound, s)
         IN  IF n = s THEN [hang |-> TRUE, s |-> s] ELSE ExtXLoop(bound, n)

RECURSIVE ExtYLoop(_, _)
ExtYLoop(bound, s) ==
    IF ~(s.y_lo < s.y_hi) THEN [hang |-> FALSE, s |-> s]
    ELSE LET n == ExtYStep(bound, s)
         IN  IF n = s THEN [hang |-> TRUE, s |-> s] ELSE ExtYLoop(bound, n)

BisectOut(status, s) == [status |-> status, x_lo |-> s.x_lo, y_lo |-> s.y_lo]

push_omega_bisect(bound, in, dbg) ==
    LET jl == JointLoop(bound, BisectStart(in))
    IN  IF jl.hang THEN BisectOut("hang", jl.s)
        ELSE IF dbg /\ ~MidAsserts(bound, jl.s) THEN BisectOut("abort", jl.s)
        ELSE LET b  == MidBranch(bound, in, jl.s)
                 el == IF b.pc = "ext_x" THEN ExtXLoop(bound, b.s)
                       ELSE IF b.pc = "ext_y" THEN ExtYLoop(bound, b.s)
                       ELSE [hang |-> FALSE, s |-> b.s]
             IN  IF el.hang THEN BisectOut("hang", el.s)
                 ELSE IF dbg /\ ~FinalAsserts(bound, el.s) THEN BisectOut("abort", el.s)
                 ELSE BisectOut("ret", el.s)

\* ------------------------------------------------------------------- terms
\* A pdd is modelled by a monomial k * prod x^d[x] with k reduced mod 2^w;
\* the zero polynomial is k = 0 with all degrees 0.  Products of monomials are
\* monomials, so the terms the rules build stay in this form.
Bound == Pow2(w)
NoVal == -1
ZeroDeg == [x \in Vars |-> 0]
Zero == [k |-> 0, d |-> ZeroDeg]
\* pddm.mk_val
MkVal(n) == [k |-> n % Bound, d |-> ZeroDeg]
\* s().var(v)
MkVar(v) == [k |-> 1, d |-> [x \in Vars |-> IF x = v THEN 1 ELSE 0]]
\* pdd operator*
Mul(p, q) ==
    LET k == (p.k * q.k) % Bound
    IN  IF k = 0 THEN Zero ELSE [k |-> k, d |-> [x \in Vars |-> p.d[x] + q.d[x]]]
\* the variables a term mentions
Supp(t) == {x \in Vars : t.d[x] > 0}
\* pdd::is_val
IsVal(t) == Supp(t) = {}
\* pdd::is_var: 1 * x
IsVarT(t) == t.k = 1 /\ \E x \in Vars : Supp(t) = {x} /\ t.d[x] = 1
\* pdd::is_unary: value * variable
IsUnary(t) == t.k # 0 /\ \E x \in Vars : Supp(t) = {x} /\ t.d[x] = 1
\* pdd::var: the top variable; for a value the variable of level 0
TopVar(t) == IF Supp(t) = {} THEN 0 ELSE CHOOSE x \in Supp(t) : \A y \in Supp(t) : y <= x
\* pdd::degree(x)
Degree(t, x) == t.d[x]
\* pdd::factor(x, 1, y): t = y * x with no remainder
Factor(t, x) ==
    IF t = Zero THEN [ok |-> TRUE, y |-> Zero]
    ELSE IF t.d[x] >= 1 THEN [ok |-> TRUE, y |-> [t EXCEPT !.d[x] = @ - 1]]
    ELSE [ok |-> FALSE, y |-> t]
\* pdd::try_div(c, q): exact division of the coefficient by the value c
TryDiv(t, c) ==
    IF c # 0 /\ t.k % c = 0
    THEN [ok |-> TRUE, q |-> IF t.k = 0 THEN Zero ELSE [t EXCEPT !.k = t.k \div c]]
    ELSE [ok |-> FALSE, q |-> t]

RECURSIVE PowN(_, _)
PowN(b, e) == IF e = 0 THEN 1 ELSE b * PowN(b, e - 1)
RECURSIVE MonoVal(_, _, _)
\* value of the power product of t over the variables 0 .. n
MonoVal(n, t, mu) ==
    IF n < 0 THEN 1 ELSE PowN(mu[n], t.d[n]) * MonoVal(n - 1, t, mu)
\* value of a term under a valuation that assigns all of its variables
Eval(t, mu) ==
    IF t.d = ZeroDeg THEN t.k ELSE (t.k * MonoVal(Cardinality(Vars) - 1, t, mu)) % Bound
\* solver::try_eval under the current model: NoVal when a variable is unassigned
TryEval(t) == IF \E x \in Supp(t) : val[x] = NoVal THEN NoVal ELSE Eval(t, val)

\* ---------------------------------------------------------------- literals
\* A signed constraint: kind "ule" (lhs <= rhs) or "eq" (lhs = 0), with a sign.
Ule(p, q) == [kind |-> "ule", pos |-> TRUE, lhs |-> p, rhs |-> q]
Eq(p) == [kind |-> "eq", pos |-> TRUE, lhs |-> p, rhs |-> Zero]
\* signed_constraint operator~
Neg(l) == [l EXCEPT !.pos = ~@]
\* solver::ult(p, q) is ~ule(q, p)
Ult(p, q) == Neg(Ule(q, p))
IsUle(l) == l.kind = "ule"
\* signed_constraint::as_inequality: the negation of p <= q is q < p
AsInequality(l) ==
    IF l.pos
    THEN [lhs |-> l.lhs, rhs |-> l.rhs, is_strict |-> FALSE, src |-> l]
    ELSE [lhs |-> l.rhs, rhs |-> l.lhs, is_strict |-> TRUE, src |-> l]
\* inequality::as_signed_constraint
AsSignedConstraint(i) == i.src
\* truth of a literal under a total valuation
Holds(l, mu) ==
    LET a == Eval(l.lhs, mu)
        b == Eval(l.rhs, mu)
        t == IF l.kind = "ule" THEN a <= b ELSE a = 0
    IN  t <=> l.pos
\* signed_constraint::is_currently_false: false under the current model;
\* undetermined (not false) when a variable of the literal is unassigned
IsCurrentlyFalse(l) ==
    /\ TryEval(l.lhs) # NoVal /\ TryEval(l.rhs) # NoVal
    /\ ~Holds(l, val)

\* inf_saturate::ineq
ineq(is_strict, lhs, rhs) == IF is_strict THEN Ult(lhs, rhs) ELSE Ule(lhs, rhs)

\* ------------------------------------------------------------ conflict core
Range(s) == {s[i] : i \in 1 .. Len(s)}
\* conflict_core::insert: a literal already in the core is not added again
CoreInsert(cr, l) ==
    [core |-> IF l \in Range(cr.core) THEN cr.core ELSE Append(cr.core, l),
     ops |-> Append(cr.ops, [op |-> "insert", lit |-> l])]
\* conflict_core::set: the core's literals are replaced by the literal
CoreSet(cr, l) ==
    [core |-> <<l>>, ops |-> Append(cr.ops, [op |-> "set", lit |-> l])]
\* conflict_core::keep: pins the literal's dependencies, the literals stay
CoreKeep(cr, l) ==
    [core |-> cr.core, ops |-> Append(cr.ops, [op |-> "keep", lit |-> l])]
RECURSIVE InsertAll(_, _)
InsertAll(cr, ds) ==
    IF ds = <<>> THEN cr ELSE InsertAll(CoreInsert(cr, Head(ds)), Tail(ds))

\* --------------------------------------------------------- shape predicates
\* Match [v] .. <= v
is_l_v(v, i) == i.rhs = MkVar(v)
\* Match [v] v <= ...
is_g_v(v, i) == i.lhs = MkVar(v)
\* Match xy = x * Y
is_xY(x, xy) ==
    IF Degree(xy, x) = 1 THEN Factor(xy, x) ELSE [ok |-> FALSE, y |-> xy]
\* Match [coeff*x] coeff*x*Y
is_coeffxY(x, p) ==
    IF ~IsUnary(x) THEN [ok |-> FALSE, y |-> p]
    ELSE LET dv == TryDiv(p, x.k)
         IN  IF ~dv.ok THEN [ok |-> FALSE, y |-> p] ELSE Factor(dv.q, TopVar(x))
\* Match [x] y <= a*x
is_Y_l_Ax(x, d) ==
    LET m == is_xY(x, d.rhs) IN [ok |-> m.ok, a |-> m.y, y |-> d.lhs]
verify_Y_l_Ax(x, d, a, y) == d.lhs = y /\ d.rhs = Mul(a, MkVar(x))
\* Match [v] v*x <= z*x with x a variable
is_Xy_l_XZ(v, c) ==
    LET m == is_xY(v, c.lhs)
    IN  IF ~m.ok THEN [ok |-> FALSE, x |-> m.y, z |-> m.y]
        ELSE LET n == is_coeffxY(m.y, c.rhs) IN [ok |-> n.ok, x |-> m.y, z |-> n.y]
verify_Xy_l_XZ(v, c, x, z) == c.lhs = Mul(MkVar(v), x) /\ c.rhs = Mul(z, x)
\* Match [z] yx <= zx with x a variable
is_YX_l_zX(z, c) ==
    LET m == is_xY(z, c.rhs)
    IN  IF ~m.ok THEN [ok |-> FALSE, x |-> m.y, y |-> m.y]
        ELSE LET n == is_coeffxY(m.y, c.lhs) IN [ok |-> n.ok, x |-> m.y, y |-> n.y]
verify_YX_l_zX(z, c, x, y) == c.lhs = Mul(y, x) /\ c.rhs = Mul(MkVar(z), x)
\* Match [x] xY <= xZ
is_xY_l_xZ(x, c) ==
    LET m == is_xY(x, c.lhs)
        n == is_xY(x, c.rhs)
    IN  [ok |-> m.ok /\ n.ok, y |-> m.y, z |-> n.y]
\* determine whether values of x * y is non-overflowing
is_non_overflow(x, y) ==
    LET x_val == TryEval(x)
        y_val == TryEval(y)
    IN  x_val # NoVal /\ y_val # NoVal /\ x_val * y_val < Bound

\* ------------------------------------------------- external inputs of a rule
\* What a rule attempt reads from the rest of the solver: mv, the answer of
\* m_viable.max_viable for each variable, and bf, whether the candidate
\* literal is assigned false on the boolean trail.
MaxViable(v) ==
    IF val[v] # NoVal
    THEN {m \in val[v] .. Bound - 1 : m <= val[v] + MaxSlack \/ m = Bound - 1}
    ELSE {Bound - 1}
\* only the variables push_omega looks at (x.var() and y.var()) vary
Inputs(x, y) ==
    LET R(v) == IF v \in {TopVar(x), TopVar(y)} THEN MaxViable(v) ELSE {Bound - 1}
    IN  {in \in [mv : [Vars -> UNION {R(v) : v \in Vars}], bf : BOOLEAN] :
            \A v \in Vars : in.mv[v] \in R(v)}
NoInputs == {[mv |-> [v \in Vars |-> 0], bf |-> FALSE]}
\* m_cjust[v]: the stored literals justifying the viable upper bound of v;
\* what is read depends on the variable alone
cjust(v, mv) == <<Ule(MkVar(v), MkVal(mv[v]))>>

\* ---------------------------------------------------------------- push_omega
\* result: status of push_omega_bisect ("ret" when it is not called) and
\* new_constraints after the call
push_omega(new_constraints, x, y, in, dbg) ==
    LET x_max == IF IsVarT(x) THEN in.mv[TopVar(x)] ELSE Bound - 1
        y_max == IF IsVarT(y) THEN in.mv[TopVar(y)] ELSE Bound - 1
    IN  IF x_max * y_max >= Bound
        THEN LET b == push_omega_bisect(Bound,
                        [x_val |-> TryEval(x), x_max |-> x_max,
                         y_val |-> TryEval(y), y_max |-> y_max], dbg)
             IN  [status |-> b.status,
                  newc |-> IF b.status = "ret"
                           THEN new_constraints \o <<Ule(x, MkVal(b.x_lo)), Ule(y, MkVal(b.y_lo))>>
                           ELSE new_constraints]
        ELSE [status |-> "ret",
              newc |-> new_constraints \o cjust(TopVar(y), in.mv) \o cjust(TopVar(x), in.mv)]

\* ----------------------------------------------------------------- propagate
\* propagate without the test that a critical premise is currently false
propagate_no_crit_gate(cr, crit1, crit2, c, new_constraints, bf) ==
    LET gates == [c1f |-> IsCurrentlyFalse(AsSignedConstraint(crit1)),
                  c2f |-> IsCurrentlyFalse(AsSignedConstraint(crit2)),
                  bf |-> bf, mf |-> IsCurrentlyFalse(c), c |-> c]
        k1 == CoreKeep([core |-> cr, ops |-> <<>>], AsSignedConstraint(crit1))
        k2 == CoreKeep(k1, AsSignedConstraint(crit2))
        m  == IF bf THEN CoreInsert(k2, Neg(c)) ELSE CoreSet(k2, c)
        f  == InsertAll(m, new_constraints)
    IN  IF ~bf /\ ~IsCurrentlyFalse(c)
        THEN [ret |-> FALSE, core |-> cr, ops |-> <<>>, g |-> gates]
        ELSE [ret |-> TRUE, core |-> f.core, ops |-> f.ops, g |-> gates]

\* propagate that adds the candidate to the core first and pins the critical
\* premises afterwards
propagate_set_before_keep(cr, crit1, crit2, c, new_constraints, bf) ==
    LET c1f == IsCurrentlyFalse(AsSignedConstraint(crit1))
        c2f == IsCurrentlyFalse(AsSignedConstraint(crit2))
        mf  == IsCurrentlyFalse(c)
        gates == [c1f |-> c1f, c2f |-> c2f, bf |-> bf, mf |-> mf, c |-> c]
        st == [core |-> cr, ops |-> <<>>]
        m  == IF bf THEN CoreInsert(st, Neg(c)) ELSE CoreSet(st, c)
        k1 == CoreKeep(m, AsSignedConstraint(crit1))
        k2 == CoreKeep(k1, AsSignedConstraint(crit2))
        f  == InsertAll(k2, new_constraints)
    IN  IF (~c1f /\ ~c2f) \/ (~bf /\ ~mf)
        THEN [ret |-> FALSE, core |-> cr, ops |-> <<>>, g |-> gates]
        ELSE [ret |-> TRUE, core |-> f.core, ops |-> f.ops, g |-> gates]

propagate(cr, crit1, crit2, c, new_constraints, bf) ==
    LET crit1_false == IsCurrentlyFalse(AsSignedConstraint(crit1))
        crit2_false == IsCurrentlyFalse(AsSignedConstraint(crit2))
        is_bool_false == bf
        is_model_false == IsCurrentlyFalse(c)
        gates == [c1f |-> crit1_false, c2f |-> crit2_false,
                  bf |-> is_bool_false, mf |-> is_model_false, c |-> c]
        k1 == CoreKeep([core |-> cr, ops |-> <<>>], AsSignedConstraint(crit1))
        k2 == CoreKeep(k1, AsSignedConstraint(crit2))
        m  == IF is_bool_false THEN CoreInsert(k2, Neg(c)) ELSE CoreSet(k2, c)
        f  == InsertAll(m, new_constraints)
    IN  IF ~crit1_false /\ ~crit2_false
        THEN [ret |-> FALSE, core |-> cr, ops |-> <<>>, g |-> gates]
        ELSE IF ~is_bool_false /\ ~is_model_false
        THEN [ret |-> FALSE, core |-> cr, ops |-> <<>>, g |-> gates]
        ELSE [ret |-> TRUE, core |-> f.core, ops |-> f.ops, g |-> gates]

\* the overload that builds the candidate with ineq
propagate_ineq(cr, crit1, crit2, is_strict, lhs, rhs, new_constraints, bf) ==
    propagate(cr, crit1, crit2, ineq(is_strict, lhs, rhs), new_constraints, bf)

\* ------------------------------------------------------------------- rules
\* Outcome of a rule attempt.  built: the rule reached propagate; status:
\* "ret" the rule returned, "hang"/"abort" push_omega_bisect did not return.
NoLit == Eq(Zero)
NoGates == [c1f |-> FALSE, c2f |-> FALSE, bf |-> FALSE, mf |-> FALSE, c |-> NoLit]
NoRule(cr) ==
    [built |-> FALSE, status |-> "ret", ret |-> FALSE, core |-> cr, ops |-> <<>>,
     crit1 |-> NoLit, crit2 |-> NoLit, newc |-> <<>>, g |-> NoGates]
Diverged(cr, status) == [NoRule(cr) EXCEPT !.status = status]
Built(p, crit1, crit2, newc) ==
    [built |-> TRUE, status |-> "ret", ret |-> p.ret, core |-> p.core, ops |-> p.ops,
     crit1 |-> AsSignedConstraint(crit1), crit2 |-> AsSignedConstraint(crit2),
     newc |-> newc, g |-> p.g]

\* try_ugt_x that does not push the premise x # 0 in the non-strict case
try_ugt_x_no_nonzero(v, cr, c, in, dbg) ==
    LET x == MkVar(v)
        m == is_xY_l_xZ(v, c)
        om == push_omega(<<>>, x, m.y, in, dbg)
    IN  IF ~m.ok THEN NoRule(cr)
        ELSE IF ~is_non_overflow(x, m.y) THEN NoRule(cr)
        ELSE IF ~c.is_strict /\ val[v] = 0 THEN NoRule(cr)
        ELSE IF om.status # "ret" THEN Diverged(cr, om.status)
        ELSE Built(propagate_ineq(cr, c, c, c.is_strict, m.y, m.z, om.newc, in.bf), c, c, om.newc)

\* try_ugt_x that derives z <= y instead of y <= z
try_ugt_x_swapped(v, cr, c, in, dbg) ==
    LET x == MkVar(v)
        m == is_xY_l_xZ(v, c)
        nc0 == IF ~c.is_strict THEN <<Neg(Eq(x))>> ELSE <<>>
        om == push_omega(nc0, x, m.y, in, dbg)
    IN  IF ~m.ok THEN NoRule(cr)
        ELSE IF ~is_non_overflow(x, m.y) THEN NoRule(cr)
        ELSE IF ~c.is_strict /\ val[v] = 0 THEN NoRule(cr)
        ELSE IF om.status # "ret" THEN Diverged(cr, om.status)
        ELSE Built(propagate_ineq(cr, c, c, c.is_strict, m.z, m.y, om.newc, in.bf), c, c, om.newc)

\*  [x] zx > yx  ==>  Omega*(x,y) \/ z > y
\*  [x] yx <= zx  ==>  Omega*(x,y) \/ y <= z \/ x = 0
try_ugt_x(v, cr, c, in, dbg) ==
    LET x == MkVar(v)
        m == is_xY_l_xZ(v, c)
        y == m.y
        z == m.z
        nc0 == IF ~c.is_strict THEN <<Neg(Eq(x))>> ELSE <<>>
        om == push_omega(nc0, x, y, in, dbg)
    IN  IF ~m.ok THEN NoRule(cr)
        ELSE IF ~is_non_overflow(x, y) THEN NoRule(cr)
        ELSE IF ~c.is_strict /\ val[v] = 0 THEN NoRule(cr)
        ELSE IF om.status # "ret" THEN Diverged(cr, om.status)
        ELSE Built(propagate_ineq(cr, c, c, c.is_strict, y, z, om.newc, in.bf), c, c, om.newc)

\* [y] z' <= y /\ zx > yx  ==>  Omega*(x,y) \/ zx > z'x
\* [y] z' <= y /\ yx <= zx  ==>  Omega*(x,y) \/ z'x <= zx
try_ugt_y_pair(v, cr, le_y, yx_l_zx, x, z, in, dbg) ==
    LET y == MkVar(v)
        z_prime == le_y.lhs
        nc0 == <<AsSignedConstraint(le_y), AsSignedConstraint(yx_l_zx)>>
        om == push_omega(nc0, x, y, in, dbg)
    IN  IF dbg /\ ~(is_l_v(v, le_y) /\ verify_Xy_l_XZ(v, yx_l_zx, x, z))
        THEN Diverged(cr, "abort")
        ELSE IF ~is_non_overflow(x, y) THEN NoRule(cr)
        ELSE IF om.status # "ret" THEN Diverged(cr, om.status)
        ELSE Built(propagate_ineq(cr, le_y, yx_l_zx, yx_l_zx.is_strict \/ le_y.is_strict,
                                  Mul(z_prime, x), Mul(z, x), om.newc, in.bf),
                   le_y, yx_l_zx, om.newc)

\* [x]  y <= ax /\ x <= z  (non-overflow case)  ==>   Omega*(a, z)  \/  y <= az
try_y_l_ax_and_x_l_z_pair(x, cr, x_l_z, y_l_ax, a, y, in, dbg) ==
    LET z == x_l_z.rhs
        nc0 == <<AsSignedConstraint(x_l_z), AsSignedConstraint(y_l_ax)>>
        om == push_omega(nc0, a, z, in, dbg)
    IN  IF dbg /\ ~(is_g_v(x, x_l_z) /\ verify_Y_l_Ax(x, y_l_ax, a, y))
        THEN Diverged(cr, "abort")
        ELSE IF ~is_non_overflow(a, z) THEN NoRule(cr)
        ELSE IF om.status # "ret" THEN Diverged(cr, om.status)
        ELSE Built(propagate_ineq(cr, x_l_z, y_l_ax, x_l_z.is_strict \/ y_l_ax.is_strict,
                                  y, Mul(a, z), om.newc, in.bf),
                   x_l_z, y_l_ax, om.newc)

\* [z] z <= y' /\ zx > yx  ==>  Omega*(x,y') \/ y'x > yx
\* [z] z <= y' /\ yx <= zx  ==>  Omega*(x,y') \/ yx <= y'x
try_ugt_z_pair(z, cr, z_l_y, yx_l_zx, x, y, in, dbg) ==
    LET y_prime == z_l_y.rhs
        nc0 == <<AsSignedConstraint(z_l_y), AsSignedConstraint(yx_l_zx)>>
        om == push_omega(nc0, x, y_prime, in, dbg)
    IN  IF dbg /\ ~(is_g_v(z, z_l_y) /\ verify_YX_l_zX(z, yx_l_zx, x, y))
        THEN Diverged(cr, "abort")
        ELSE IF ~is_non_overflow(x, y_prime) THEN NoRule(cr)
        ELSE IF om.status # "ret" THEN Diverged(cr, om.status)
        ELSE Built(propagate_ineq(cr, z_l_y, yx_l_zx, z_l_y.is_strict \/ yx_l_zx.is_strict,
                                  Mul(y, x), Mul(y_prime, x), om.newc, in.bf),
                   z_l_y, yx_l_zx, om.newc)

\* the body of each paired rule's loop over the core, for the companion d:
\* "if (is_...(v, d, ..) && try_...(v, core, c, d, ..)) return true"
try_ugt_y_body(v, cr, c, d, in, dbg) ==
    LET m == is_Xy_l_XZ(v, d)
    IN  IF ~m.ok THEN NoRule(cr) ELSE try_ugt_y_pair(v, cr, c, d, m.x, m.z, in, dbg)
try_ugt_z_body(z, cr, c, d, in, dbg) ==
    LET m == is_YX_l_zX(z, d)
    IN  IF ~m.ok THEN NoRule(cr) ELSE try_ugt_z_pair(z, cr, c, d, m.x, m.y, in, dbg)
try_y_l_ax_and_x_l_z_body(x, cr, c, d, in, dbg) ==
    LET m == is_Y_l_Ax(x, d)
    IN  IF ~m.ok THEN NoRule(cr) ELSE try_y_l_ax_and_x_l_z_pair(x, cr, c, d, m.a, m.y, in, dbg)

\* the two terms a rule attempt hands to push_omega, when it gets that far
ugt_x_omega(v, c) ==
    LET m == is_xY_l_xZ(v, c)
    IN  [ok |-> m.ok /\ is_non_overflow(MkVar(v), m.y) /\ ~(~c.is_strict /\ val[v] = 0),
         x |-> MkVar(v), y |-> m.y]
ugt_y_omega(v, c, d) ==
    LET m == is_Xy_l_XZ(v, d)
    IN  [ok |-> m.ok /\ is_non_overflow(m.x, MkVar(v)), x |-> m.x, y |-> MkVar(v)]
ugt_z_omega(z, c, d) ==
    LET m == is_YX_l_zX(z, d)
    IN  [ok |-> m.ok /\ is_non_overflow(m.x, c.rhs), x |-> m.x, y |-> c.rhs]
y_l_ax_omega(x, c, d) ==
    LET m == is_Y_l_Ax(x, d)
    IN  [ok |-> m.ok /\ is_non_overflow(m.a, c.rhs), x |-> m.a, y |-> c.rhs]
InputsOf(o) == IF o.ok THEN Inputs(o.x, o.y) ELSE NoInputs

\* ------------------------------------------------------------ initial cores
V == MkVar(0)
U == MkVar(1)
\* [v] v*Y <= v*Z, alone or behind a literal that is no inequality
CoresX ==
    {<<ineq(s, Mul(V, Y), Mul(V, Z))>> : s \in BOOLEAN, Y \in {MkVal(2), U}, Z \in {MkVal(5), MkVal(1), U}}
    \cup {<<Neg(Eq(V)), ineq(s, Mul(V, MkVal(2)), Mul(V, MkVal(1)))>> : s \in BOOLEAN}
\* [v] z' <= v with the companion v*x <= z*x, and between two companions
CoresY ==
    {<<ineq(s1, Zp, V), ineq(s2, Mul(V, U), Mul(Z, U))>> :
        s1 \in BOOLEAN, s2 \in BOOLEAN, Zp \in {MkVal(2), U}, Z \in {MkVal(1)}}
    \cup {<<ineq(FALSE, Mul(V, U), Mul(MkVal(1), U)), ineq(s1, MkVal(2), V),
            ineq(FALSE, Mul(V, U), Mul(MkVal(2), U))>> : s1 \in BOOLEAN}
\* [v] v <= y' with the companion y*x <= v*x
CoresZ ==
    {<<ineq(s1, V, Yp), ineq(s2, Mul(Y, U), Mul(V, U))>> :
        s1 \in BOOLEAN, s2 \in BOOLEAN, Yp \in {MkVal(1), U}, Y \in {MkVal(2)}}
\* [v] v <= z with the companion y <= a*v, and with two companions
CoresA ==
    {<<ineq(s1, V, Z), ineq(s2, MkVal(3), Mul(A, V))>> :
        s1 \in BOOLEAN, s2 \in BOOLEAN, Z \in {MkVal(1), U}, A \in {MkVal(2), U}}
    \cup {<<ineq(s1, V, MkVal(1)), ineq(FALSE, MkVal(3), Mul(MkVal(3), V)),
            Eq(U), ineq(FALSE, MkVal(3), Mul(MkVal(2), V))>> : s1 \in BOOLEAN}
Cores == CoresX \cup CoresY \cup CoresZ \cup CoresA \cup {<<>>, <<Eq(V)>>}

Mentions(cr, x) ==
    \E i \in 1 .. Len(cr) : cr[i].lhs.d[x] > 0 \/ cr[i].rhs.d[x] > 0
\* current models: a variable the core does not mention is assigned 0, and
\* only variable 1 may be unassigned
Models(cr) ==
    {m \in [Vars -> {n % Bound : n \in ValPool} \cup {NoVal}] :
        /\ m[0] # NoVal
        /\ \A x \in Vars : ~Mentions(cr, x) => m[x] = 0}

\* ------------------------------------------------------------------ perform
NoAtt ==
    [rule |-> 0, ci |-> 0, dj |-> 0, built |-> FALSE, status |-> "ret", ret |-> FALSE,
     crit1 |-> NoLit, crit2 |-> NoLit, newc |-> <<>>, g |-> NoGates,
     mv |-> [v \in Vars |-> 0]]
\* the attempt of rule r on c1 = core[i] (and dd = core[k]) that read the
\* viable maxima in.mv and had the outcome R
Att(r, i, k, in, R) ==
    [rule |-> r, ci |-> i, dj |-> k, built |-> R.built, status |-> R.status, ret |-> R.ret,
     crit1 |-> R.crit1, crit2 |-> R.crit2, newc |-> R.newc, g |-> R.g, mv |-> in.mv]

BisectOff ==
    /\ bin = [x_val |-> 0, x_max |-> 0, y_val |-> 0, y_max |-> 0]
    /\ bs = BisectStart(bin)
    /\ bpc = "off"

Init ==
    /\ w \in Widths
    /\ debug \in BOOLEAN
    /\ BisectOff
    /\ core \in Cores
    /\ val \in Models(core)
    /\ pv = 0 /\ pc = "idle" /\ idx = 0 /\ rule = 0 /\ j = 0
    /\ core0 = core /\ oplog = <<>> /\ att = NoAtt /\ tried = <<>> /\ ret = "none"

\* the outer solver calls perform(v, core) on the conflict core of the episode
PerformCall(v) ==
    /\ pc = "idle" /\ val[v] # NoVal
    /\ pv' = v /\ pc' = "loop" /\ idx' = 1 /\ rule' = 1 /\ j' = 0
    /\ UNCHANGED <<w, debug, bvars, val, core, core0, oplog, att, tried, ret>>

\* the loop over the core is exhausted: return false
PerformReturnFalse ==
    /\ pc = "loop" /\ idx > Len(core)
    /\ pc' = "returned" /\ ret' = "false" /\ idx' = 0 /\ rule' = 0
    /\ att' = NoAtt
    /\ UNCHANGED <<w, debug, bvars, val, core, pv, j, core0, oplog, tried>>

\* "if (!c1->is_ule()) continue"
PerformSkip ==
    /\ pc = "loop" /\ idx <= Len(core) /\ ~IsUle(core[idx])
    /\ idx' = idx + 1 /\ att' = NoAtt
    /\ UNCHANGED <<w, debug, bvars, val, core, pv, pc, rule, j, core0, oplog, tried, ret>>

\* the rule tried on c1 returned false: the next rule, or the next literal
NextRule ==
    /\ j' = 0
    /\ IF rule < 4 THEN rule' = rule + 1 /\ idx' = idx
                   ELSE rule' = 1 /\ idx' = idx + 1

\* perform that leaves its loop when a rule fires ("break" for "return true")
\* and so falls through to "return false"
Outcome_break(R, Continue) ==
    IF R.status # "ret"
    THEN pc' = R.status /\ UNCHANGED <<core, oplog, ret, idx, rule, j>>
    ELSE /\ core' = R.core /\ oplog' = oplog \o R.ops
         /\ IF R.ret
            THEN idx' = Len(R.core) + 1 /\ rule' = 1 /\ j' = 0 /\ UNCHANGED <<ret, pc>>
            ELSE Continue /\ UNCHANGED <<ret, pc>>

\* What perform does with the outcome R of an attempt.  The core is passed
\* by reference: what the attempt did to it stays done whatever it returns.
\* Continue is where control goes when the attempt returned false.
Outcome(R, Continue) ==
    IF R.status # "ret"
    THEN pc' = R.status /\ UNCHANGED <<core, oplog, ret, idx, rule, j>>
    ELSE /\ core' = R.core /\ oplog' = oplog \o R.ops
         /\ IF R.ret
            THEN pc' = "returned" /\ ret' = "true" /\ idx' = 0 /\ rule' = 0 /\ j' = 0
            ELSE Continue /\ UNCHANGED <<ret, pc>>

TryUgtX ==
    /\ pc = "loop" /\ idx <= Len(core) /\ IsUle(core[idx]) /\ rule = 1
    /\ LET c == AsInequality(core[idx])
       IN  \E in \in InputsOf(ugt_x_omega(pv, c)) :
             \E R \in {try_ugt_x(pv, core, c, in, debug)} :
                 att' = Att(1, idx, 0, in, R) /\ Outcome(R, NextRule)
    /\ UNCHANGED <<w, debug, bvars, val, pv, core0, tried>>

\* a scan that starts behind c1 instead of at the front of the core
first_companion_rest(i) == i + 1

\* "for (auto dd : core)": where a paired rule's loop over the companions
\* starts and how it advances
first_companion(i) == 1
next_companion(k) == k + 1

\* A paired rule on c1 takes one step for the test of c1's shape on entry
\* (j = 0), then one step per companion dd of the core.

\* try_ugt_y(v, core, c)
TryUgtY ==
    /\ pc = "loop" /\ idx <= Len(core) /\ IsUle(core[idx]) /\ rule = 2
    /\ LET c == AsInequality(core[idx])
       IN  IF j = 0
           THEN /\ IF is_l_v(pv, c)
                   THEN j' = first_companion(idx) /\ UNCHANGED <<idx, rule>>
                   ELSE NextRule
                /\ att' = NoAtt /\ tried' = <<>> /\ UNCHANGED <<core, oplog, ret, pc>>
           ELSE IF j > Len(core)
           THEN NextRule /\ att' = NoAtt /\ tried' = <<>> /\ UNCHANGED <<core, oplog, ret, pc>>
           ELSE IF ~IsUle(core[j])
           THEN /\ j' = next_companion(j) /\ att' = NoAtt
                /\ UNCHANGED <<core, oplog, ret, pc, idx, rule, tried>>
           ELSE LET d == AsInequality(core[j])
                IN  \E in \in InputsOf(ugt_y_omega(pv, c, d)) :
                      \E R \in {try_ugt_y_body(pv, core, c, d, in, debug)} :
                          /\ att' = Att(2, idx, j, in, R)
                          /\ tried' = Append(tried, [dj |-> j, shape |-> is_Xy_l_XZ(pv, d).ok,
                                                     ret |-> R.status = "ret" /\ R.ret])
                          /\ Outcome(R, j' = next_companion(j) /\ UNCHANGED <<idx, rule>>)
    /\ UNCHANGED <<w, debug, bvars, val, pv, core0>>

\* try_ugt_z(z, core, c)
TryUgtZ ==
    /\ pc = "loop" /\ idx <= Len(core) /\ IsUle(core[idx]) /\ rule = 3
    /\ LET c == AsInequality(core[idx])
       IN  IF j = 0
           THEN /\ IF is_g_v(pv, c)
                   THEN j' = first_companion(idx) /\ UNCHANGED <<idx, rule>>
                   ELSE NextRule
                /\ att' = NoAtt /\ tried' = <<>> /\ UNCHANGED <<core, oplog, ret, pc>>
           ELSE IF j > Len(core)
           THEN NextRule /\ att' = NoAtt /\ tried' = <<>> /\ UNCHANGED <<core, oplog, ret, pc>>
           ELSE IF ~IsUle(core[j])
           THEN /\ j' = next_companion(j) /\ att' = NoAtt
                /\ UNCHANGED <<core, oplog, ret, pc, idx, rule, tried>>
           ELSE LET d == AsInequality(core[j])
                IN  \E in \in InputsOf(ugt_z_omega(pv, c, d)) :
                      \E R \in {try_ugt_z_body(pv, core, c, d, in, debug)} :
                          /\ att' = Att(3, idx, j, in, R)
                          /\ tried' = Append(tried, [dj |-> j, shape |-> is_YX_l_zX(pv, d).ok,
                                                     ret |-> R.status = "ret" /\ R.ret])
                          /\ Outcome(R, j' = next_companion(j) /\ UNCHANGED <<idx, rule>>)
    /\ UNCHANGED <<w, debug, bvars, val, pv, core0>>

\* try_y_l_ax_and_x_l_z(x, core, c)
TryYLAxAndXLZ ==
    /\ pc = "loop" /\ idx <= Len(core) /\ IsUle(core[idx]) /\ rule = 4
    /\ LET c == AsInequality(core[idx])
       IN  IF j = 0
           THEN /\ IF is_g_v(pv, c)
                   THEN j' = first_companion(idx) /\ UNCHANGED <<idx, rule>>
                   ELSE NextRule
                /\ att' = NoAtt /\ tried' = <<>> /\ UNCHANGED <<core, oplog, ret, pc>>
           ELSE IF j > Len(core)
           THEN NextRule /\ att' = NoAtt /\ tried' = <<>> /\ UNCHANGED <<core, oplog, ret, pc>>
           ELSE IF ~IsUle(core[j])
           THEN /\ j' = next_companion(j) /\ att' = NoAtt
                /\ UNCHANGED <<core, oplog, ret, pc, idx, rule, tried>>
           ELSE LET d == AsInequality(core[j])
                IN  \E in \in InputsOf(y_l_ax_omega(pv, c, d)) :
                      \E R \in {try_y_l_ax_and_x_l_z_body(pv, core, c, d, in, debug)} :
                          /\ att' = Att(4, idx, j, in, R)
                          /\ tried' = Append(tried, [dj |-> j, shape |-> is_Y_l_Ax(pv, d).ok,
                                                     ret |-> R.status = "ret" /\ R.ret])
                          /\ Outcome(R, j' = next_companion(j) /\ UNCHANGED <<idx, rule>>)
    /\ UNCHANGED <<w, debug, bvars, val, pv, core0>>

Next ==
    \/ \E v \in Vars : PerformCall(v)
    \/ PerformReturnFalse
    \/ PerformSkip
    \/ TryUgtX
    \/ TryUgtY
    \/ TryUgtZ
    \/ TryYLAxAndXLZ

Spec == Init /\ [][Next]_vars

\* ------------------------------------------- push_omega_bisect, step by step
PerformOff ==
    /\ val = [x \in Vars |-> NoVal] /\ core = <<>> /\ pv = 0 /\ pc = "off"
    /\ idx = 0 /\ rule = 0 /\ j = 0 /\ core0 = <<>> /\ oplog = <<>>
    /\ att = NoAtt /\ tried = <<>> /\ ret = "none"

BInit ==
    /\ w \in Widths
    /\ debug \in BOOLEAN
    /\ bin \in BisectInputs(Pow2(w))
    /\ bs = BisectStart(bin)
    /\ bpc = "joint"
    /\ PerformOff

BisectJoint ==
    /\ bpc = "joint" /\ JointCond(bs)
    /\ bs' = JointStep(Pow2(w), bs)
    /\ UNCHANGED <<w, debug, bin, bpc, svars>>

BisectJointExit ==
    /\ bpc = "joint" /\ ~JointCond(bs)
    /\ bpc' = "mid"
    /\ UNCHANGED <<w, debug, bin, bs, svars>>

BisectMid ==
    /\ bpc = "mid"
    /\ IF debug /\ ~MidAsserts(Pow2(w), bs)
       THEN bpc' = "abort" /\ bs' = bs
       ELSE LET b == MidBranch(Pow2(w), bin, bs)
            IN  bpc' = b.pc /\ bs' = b.s
    /\ UNCHANGED <<w, debug, bin, svars>>

BisectExtX ==
    /\ bpc = "ext_x"
    /\ IF bs.x_lo < bs.x_hi
       THEN bs' = ExtXStep(Pow2(w), bs) /\ bpc' = bpc
       ELSE bs' = bs /\ bpc' = "post"
    /\ UNCHANGED <<w, debug, bin, svars>>

BisectExtY ==
    /\ bpc = "ext_y"
    /\ IF bs.y_lo < bs.y_hi
       THEN bs' = ExtYStep(Pow2(w), bs) /\ bpc' = bpc
       ELSE bs' = bs /\ bpc' = "post"
    /\ UNCHANGED <<w, debug, bin, svars>>

BisectReturn ==
    /\ bpc = "post"
    /\ bpc' = IF debug /\ ~FinalAsserts(Pow2(w), bs) THEN "abort" ELSE "done"
    /\ UNCHANGED <<w, debug, bin, bs, svars>>

BNext ==
    \/ BisectJoint
    \/ BisectJointExit
    \/ BisectMid
    \/ BisectExtX
    \/ BisectExtY
    \/ BisectReturn

SpecBisect == BInit /\ [][BNext]_vars

\* the procedure is sequential code: whenever it can take a step it does
FairBisect == BInit /\ [][BNext]_vars /\ WF_vars(BNext)

\* =================================================================== claims
Valuations == [Vars -> 0 .. Bound - 1]
\* the literals of the lemma an attempt built: its critical literals, the
\* side conditions it pushed and the derived literal
LemmaLits(a) == {a.crit1, a.crit2, a.g.c} \cup Range(a.newc)
LemmaVars(a) == UNION {Supp(l.lhs) \cup Supp(l.rhs) : l \in LemmaLits(a)}
\* the valuations that differ on the variables of the lemma (a variable it
\* does not mention is held at 0: no literal's truth depends on it)
LemmaValuations(a) ==
    LET xs == LemmaVars(a)
        R(x) == IF x \in xs THEN 0 .. Bound - 1 ELSE {0}
    IN  {[x \in Vars |-> IF x = 0 THEN a0 ELSE a1] : a0 \in R(0), a1 \in R(1)}
PremisesHold(a, mu) ==
    /\ \A i \in 1 .. Len(a.newc) : Holds(a.newc[i], mu)
    /\ Holds(a.crit1, mu) /\ Holds(a.crit2, mu)
LemmaSound(a) == \A mu \in LemmaValuations(a) : ~PremisesHold(a, mu) \/ Holds(a.g.c, mu)
\* the last two side conditions are upper bounds whose product does not overflow
OmegaBounds(a) ==
    /\ Len(a.newc) >= 2
    /\ LET p == a.newc[Len(a.newc) - 1]
           q == a.newc[Len(a.newc)]
       IN  /\ IsUle(p) /\ p.pos /\ IsVal(p.rhs)
           /\ IsUle(q) /\ q.pos /\ IsVal(q.rhs)
           /\ p.rhs.k * q.rhs.k < Bound
PairedRules == {2, 3, 4}

\* C1: when try_ugt_x builds its lemma from the literal x*Y <= x*Z (or <), the
\* derived literal is Y <= Z (Y < Z when the literal is strict), the side
\* conditions are v # 0 (non-strict case) and two Omega bounds whose product is
\* below 2^w, and every valuation that satisfies the literal and the side
\* conditions satisfies the derived literal.
C1_UgtXSound ==
    (att.rule = 1 /\ att.built) =>
        LET c == AsInequality(att.crit1)
            m == is_xY_l_xZ(pv, c)
        IN  /\ m.ok
            /\ att.g.c = ineq(c.is_strict, m.y, m.z)
            /\ OmegaBounds(att)
            /\ (~c.is_strict => att.newc[1] = Neg(Eq(MkVar(pv))))
            /\ LemmaSound(att)
\* try_ugt_x built a lemma from a non-strict literal whose premises some
\* valuation satisfies
C1_Witness ==
    /\ att.rule = 1 /\ att.built /\ att.crit1.pos
    /\ att.g.c.lhs # att.g.c.rhs
    /\ \E mu \in Valuations : PremisesHold(att, mu)

\* C2: when a paired rule builds its lemma, the derived literal is strict
\* exactly when one of the two premises is strict, and every valuation that
\* satisfies both premises and the side conditions satisfies the derived
\* literal, also when the common multiplier evaluates to 0.
C2_PairedSound ==
    (att.rule \in PairedRules /\ att.built) =>
        /\ (~att.g.c.pos <=> (~att.crit1.pos \/ ~att.crit2.pos))
        /\ LemmaSound(att)
\* a paired rule built a strict lemma that a valuation with multiplier 0 refutes
C2_Witness ==
    /\ att.rule \in PairedRules /\ att.built /\ ~att.g.c.pos
    /\ \E mu \in Valuations :
         /\ PremisesHold(att, mu) /\ ~Holds(att.g.c, mu)
         /\ Eval(att.g.c.lhs, mu) = 0 /\ Eval(att.g.c.rhs, mu) = 0

\* C3: whenever push_omega_bisect gets to emit its literals, x_lo and y_lo lie
\* between the start values and the maxima and satisfy the three final
\* SASSERTs.
C3_BisectOutput ==
    (bpc \in {"post", "done"}) =>
        /\ bin.x_val <= bs.x_lo /\ bs.x_lo <= bin.x_max
        /\ bin.y_val <= bs.y_lo /\ bs.y_lo <= bin.y_max
        /\ FinalAsserts(Pow2(w), bs)
\* a release build returned a pair that fails a final SASSERT
C3_Witness ==
    bpc = "done" /\ ~debug /\ ~FinalAsserts(Pow2(w), bs)

\* C4: push_omega_bisect terminates on every admissible input: eventually it
\* has returned (or a SASSERT has stopped it).
C4_BisectTerminates == <>(bpc \in {"done", "abort"})
\* the input w = 4, x_val = 3, x_max = 5, y_val = 3, y_max = 5 in the loop that
\* extends x_lo, at the iteration that no longer changes anything
C4_Witness ==
    /\ w = 4 /\ bin = [x_val |-> 3, x_max |-> 5, y_val |-> 3, y_max |-> 5]
    /\ bpc = "ext_x" /\ bs.x_lo < bs.x_hi
    /\ ExtXStep(Pow2(w), bs) = bs

\* C5: when neither critical premise is currently false, or the candidate is
\* neither false on the boolean trail nor currently false, propagate returns
\* false and has done no keep, insert or set on the core.
C5_PropagateGate ==
    (att.built /\ ( (~IsCurrentlyFalse(att.crit1) /\ ~IsCurrentlyFalse(att.crit2))
                    \/ (~att.g.bf /\ ~IsCurrentlyFalse(att.g.c)) )) =>
        (~att.ret /\ oplog = <<>> /\ core = core0)
\* propagate was called with a critical premise currently false and a
\* candidate that is not false, and returned false
C5_Witness ==
    /\ att.built /\ ~att.ret
    /\ IsCurrentlyFalse(att.crit1) \/ IsCurrentlyFalse(att.crit2)
    /\ ~att.g.bf /\ ~IsCurrentlyFalse(att.g.c)

\* the scenario of C6: width 4, the core holds v*2 <= v*5, v has value 3, and
\* try_ugt_x has just been tried on the literal
Scenario6 ==
    /\ w = 4 /\ val[0] = 3 /\ pv = 0
    /\ core0 = <<Ule(Mul(MkVar(0), MkVal(2)), Mul(MkVar(0), MkVal(5)))>>
    /\ att.rule = 1
\* how try_ugt_x ends in the scenario when max_viable(v) is m
Outcome6(m) == IF m \in 5 .. 8 THEN (IF debug THEN "abort" ELSE "ret") ELSE "hang"
\* the lemma try_ugt_x hands to propagate in the scenario
Lemma6 ==
    [c |-> Ule(MkVal(2), MkVal(5)),
     newc |-> <<Neg(Eq(MkVar(0))), Ule(MkVar(0), MkVal(3)), Ule(MkVal(2), MkVal(5))>>]

\* C6 as stated: in the scenario try_ugt_x returns true and mutates the core.
C6_UgtXFires ==
    Scenario6 => (att.built /\ att.ret /\ oplog # <<>>)
\* C6 amended: in the scenario try_ugt_x never fires.  The literal v*2 <= v*5
\* is true under v = 3, so no lemma with it as critical premise can pass
\* propagate; the core is never touched and true is never returned.  What
\* the call does is fixed by max_viable(v): for 5..8 a release build gets
\* (x_lo, y_lo) = (3, 5) from push_omega_bisect, hands 2 <= 5 with the side
\* conditions v # 0, v <= 3, 2 <= 5 to propagate, and returns false at its
\* first gate, while a debug build is stopped by a SASSERT of
\* push_omega_bisect; for every other viable maximum push_omega_bisect never
\* returns.  This holds for the call made and for every viable maximum
\* 3..15 and either boolean value of the candidate.
C6_UgtXRejected ==
    Scenario6 =>
        /\ core = core0 /\ oplog = <<>> /\ ret # "true" /\ ~att.ret
        /\ ~IsCurrentlyFalse(core0[1])
        /\ att.status = Outcome6(att.mv[0])
        /\ att.status = "ret" =>
             /\ att.built /\ pc = "loop"
             /\ att.g.c = Lemma6.c /\ att.newc = Lemma6.newc
             /\ ~att.g.c1f /\ ~att.g.c2f
        /\ att.status # "ret" => (~att.built /\ pc = att.status)
        /\ \A m \in val[0] .. Bound - 1, b \in BOOLEAN :
             LET R == try_ugt_x(0, core0, AsInequality(core0[1]),
                                [mv |-> [v \in Vars |-> IF v = 0 THEN m ELSE Bound - 1],
                                 bf |-> b], debug)
             IN  /\ R.status = Outcome6(m) /\ ~R.ret /\ R.core = core0 /\ R.ops = <<>>
                 /\ R.status = "ret" =>
                      (R.built /\ R.g.c = Lemma6.c /\ R.newc = Lemma6.newc)
\* in the scenario a release build reached propagate, which returned false
C6_Witness ==
    /\ Scenario6 /\ ~debug /\ att.status = "ret" /\ att.built /\ ~att.ret
    /\ att.mv[0] = 5

\* C7: perform never mutates the core on a call that returns false, and it
\* returns false when it returns without a rule having fired, in particular
\* on a core without inequality literals.
C7_NoOpPerform ==
    /\ ret = "false" => (core = core0 /\ oplog = <<>>)
    /\ (pc = "returned" /\ oplog = <<>>) => ret = "false"
    /\ (pc = "returned" /\ \A i \in 1 .. Len(core0) : ~IsUle(core0[i])) => ret = "false"
\* perform returned false on a core of two inequality literals
C7_Witness ==
    /\ ret = "false" /\ Len(core0) >= 2
    /\ \A i \in 1 .. Len(core0) : IsUle(core0[i])

\* C8: every insert or set perform does on the core comes after keep(crit1)
\* and keep(crit2) of the lemma being added.
C8_KeepBeforeMutate ==
    \A k \in 1 .. Len(oplog) :
        oplog[k].op \in {"insert", "set"} =>
            /\ \E a \in 1 .. k - 1 : oplog[a] = [op |-> "keep", lit |-> att.crit1]
            /\ \E b \in 1 .. k - 1 : oplog[b] = [op |-> "keep", lit |-> att.crit2]
\* a paired rule fired: two keeps, then set, then the side conditions
C8_Witness ==
    /\ ret = "true" /\ att.crit1 # att.crit2 /\ Len(oplog) >= 5
    /\ oplog[3].op = "set"

\* C9: when the joint loop exits both brackets are single points with
\* x_lo*y_lo < bound <= (x_lo+1)*(y_lo+1), and during the loop the lower
\* brackets stay at or above the start values and at or below the upper ones.
C9_JointBrackets ==
    /\ bpc = "mid" => MidAsserts(Pow2(w), bs)
    /\ bpc = "joint" =>
         /\ bs.x_lo >= bin.x_val /\ bs.y_lo >= bin.y_val
         /\ bs.x_lo <= bs.x_hi /\ bs.y_lo <= bs.y_hi
\* the joint loop exited with an upper bracket below its lower bracket
C9_Witness ==
    bpc = "mid" /\ (bs.x_hi < bs.x_lo \/ bs.y_hi < bs.y_lo)

\* C10 as stated: the companion a paired rule builds its lemma with is the
\* first inequality literal of the core that matches the shape; no literal
\* before it matches the shape.
C10_FirstShapeMatch ==
    (att.rule \in PairedRules /\ att.built) =>
        \A k \in 1 .. Len(tried) : tried[k].dj < att.dj => ~tried[k].shape
\* C10 amended: a paired rule scans the whole core from its first literal in
\* iteration order, tries every inequality literal in turn, and goes on to the
\* next one when the shape does not match or the rule called on the pair
\* returns false; the companion it fires with is the first inequality literal
\* for which the shape matches and the rule called on the pair returns true.
C10_FirstSuccessfulMatch ==
    (att.rule \in PairedRules) =>
        /\ \A k \in 1 .. att.dj :
             IsUle(core0[k]) <=> \E n \in 1 .. Len(tried) : tried[n].dj = k
        /\ \A n \in 1 .. Len(tried) :
             /\ n < Len(tried) => (tried[n].dj < tried[n + 1].dj /\ ~tried[n].ret)
             /\ tried[n].ret => tried[n].shape
        /\ tried[Len(tried)].dj = att.dj
        /\ tried[Len(tried)].ret = (ret = "true")
\* a paired rule fired with a companion behind a literal that matches the
\* shape and was passed over
C10_Witness ==
    /\ ret = "true" /\ att.rule \in PairedRules
    /\ \E k \in 1 .. Len(tried) : tried[k].dj < att.dj /\ tried[k].shape /\ ~tried[k].ret

====
